---------------------------- MODULE Spec2Model ----------------------------
(***************************************************************************)
(* Model of the sorting visualizer of app/page.tsx: the four sort engines  *)
(* (bubble, quick, merge, heap) with their interactive / benchmark mode    *)
(* flag, the pacing function sleep with its pause flag, the handlers       *)
(* startSorting, togglePause, generateArray and runBenchmarks.             *)
(*                                                                         *)
(* Array elements are JavaScript objects: the model keeps an object store  *)
(* (heap) and arrays are sequences of object references, so that the       *)
(* shallow copies [...arr] of the source alias the elements exactly as the *)
(* source does.  Index variables keep the 0-based values of the source.    *)
(*                                                                         *)
(* JavaScript runs a handler, and the part of an async function between    *)
(* two timers, to completion: an engine is a machine of labelled blocks    *)
(* (EngineStep) and one action runs it up to its next sleep (Run).         *)
(***************************************************************************)
EXTENDS Integers, Sequences, FiniteSets, TLC

\* ------------------------------------------------------------- bounds
\* Length of the displayed array (ARRAY_SIZE of the source, scaled down).
NBars == 3
\* Element values are drawn from 1..MaxVal (MIN_VALUE..MAX_VALUE, scaled down).
MaxVal == 2
\* Number of startSorting calls in one behaviour.
MaxRuns == 2
\* Number of changes of the controls (algorithm, speed, new array) in one
\* behaviour.
MaxEdits == 1
\* Number of benchmark sizes; the sizes are 1..NumSizes (sizes, scaled down).
NumSizes == 2
\* Engine calls of one runBenchmarks that throw.
MaxThrows == 1
\* Milliseconds the clock advances in the specification with a clock.
MaxNow == 6
\* Milliseconds the engine calls of runBenchmarks take in one behaviour.
MaxElapsed == 1
\* Inputs of the pure-function specification: arrays of length 0..PureLen
\* over 1..PureVal.
PureLen == 4
PureVal == 3

\* ------------------------------------------------------------- constants
SLIDER_MIN == 1
SLIDER_MAX == 100
DEFAULT_SPEED == 50
POLL_MS == 100

Algorithms == <<"bubble", "quick", "merge", "heap">>
AlgorithmSet == {Algorithms[a] : a \in 1..Len(Algorithms)}
SpeedValues == {SLIDER_MIN, DEFAULT_SPEED, SLIDER_MAX}
sizes == [s \in 1..NumSizes |-> s]

VARIABLES
    heap,              \* object store: reference -> ArrayBar
    array,             \* state "array": the displayed array (references)
    sorting,           \* state "sorting"
    algorithm,         \* state "algorithm"
    speed,             \* state "speed"
    stats,             \* state "stats" (comparisons, swaps)
    isPaused,          \* state "isPaused"
    pauseRef,          \* pauseRef.current
    currentStep,       \* state "currentStep"
    sortHistory,       \* state "sortHistory"
    benchmarkResults,  \* state "benchmarkResults"
    runs,              \* the interactive engine calls made so far
    bench,             \* the runBenchmarks call in progress, if any
    edits,             \* number of changes of the controls so far
    now                \* Date.now(): milliseconds since the page was loaded

vars == <<heap, array, sorting, algorithm, speed, stats, isPaused, pauseRef,
          currentStep, sortHistory, benchmarkResults, runs, bench, edits, now>>

\* ------------------------------------------------------------- objects
ArrayBar(v) == [value |-> v, isComparing |-> FALSE, isSorted |-> FALSE,
                isSwapping |-> FALSE]

\* The smallest reference not in use.
FreshRef(h) ==
    CHOOSE o \in 1..(Cardinality(DOMAIN h) + 1) :
        o \notin DOMAIN h /\ \A p \in 1..(o - 1) : p \in DOMAIN h

RECURSIVE AllocAll(_, _, _)
\* Allocates one object per element of objs; returns the store and the
\* references, in order.
AllocAll(h, objs, refs) ==
    IF objs = <<>> THEN [heap |-> h, refs |-> refs]
    ELSE LET o == FreshRef(h)
         IN AllocAll([p \in DOMAIN h \cup {o} |-> IF p = o THEN Head(objs) ELSE h[p]],
                     Tail(objs), Append(refs, o))

Range(s) == {s[x] : x \in DOMAIN s}

\* ------------------------------------------------------------- engine state
(* An engine works on S = the component state it reads and writes           *)
(* (heap, array, sorting, stats, currentStep, sortHistory) and r, the       *)
(* locals of the call.  Three fields of r only observe the call: given (the *)
(* elements of arr as they were passed), input (their values) and result    *)
(* (the values of the returned array).  Wall-clock time is not modelled.    *)
NewCall(alg, spd, isBenchmark, arr, size) ==
    [alg |-> alg, speed |-> spd, bench |-> isBenchmark, size |-> size,
     arr |-> arr, w |-> <<>>, given |-> <<>>, input |-> <<>>, result |-> <<>>,
     cs |-> [comparisons |-> 0, swaps |-> 0],
     pc |-> "start", wait |-> "none", ms |-> 0, armed |-> 0,
     i |-> 0, j |-> 0, k |-> 0, low |-> 0, high |-> 0, mid |-> 0, pivot |-> 0,
     n1 |-> 0, n2 |-> 0, L |-> <<>>, R |-> <<>>, phase |-> "build",
     stack |-> <<>>]

Ref(S, x) == S.r.w[x + 1]

\* A comparison of the elements themselves (their identities) instead of
\* their values.
ValOfReference(S, x) == Ref(S, x)

Val(S, x) == S.heap[Ref(S, x)].value
Defined(S, x) == x >= 0 /\ x < Len(S.r.w)

\* A flag write that replaces the element by a fresh one holding only that
\* flag.
SetFlagOnFresh(S, xs, fld, b) ==
    LET os == {Ref(S, x) : x \in xs}
    IN [S EXCEPT !.heap = [o \in DOMAIN S.heap |->
            IF o \in os THEN [ArrayBar(S.heap[o].value) EXCEPT ![fld] = b]
            ELSE S.heap[o]]]

SetFlag(S, xs, fld, b) ==
    LET os == {Ref(S, x) : x \in xs}
    IN [S EXCEPT !.heap = [o \in DOMAIN S.heap |->
            IF o \in os THEN [S.heap[o] EXCEPT ![fld] = b] ELSE S.heap[o]]]

setArray(S) == [S EXCEPT !.array = S.r.w]
setSorting(S, b) == [S EXCEPT !.sorting = b]
\* A step label written in either mode.
setCurrentStepAlways(S, label) == [S EXCEPT !.currentStep = label]

\* if (!isBenchmark) setCurrentStep(label)
setCurrentStep(S, label) ==
    IF S.r.bench THEN S ELSE [S EXCEPT !.currentStep = label]
Goto(S, pc) == [S EXCEPT !.r.pc = pc]

\* A swap that lost its temporary.
SwapRefsNoTemp(S, x, y) ==
    [S EXCEPT !.r.w = [S.r.w EXCEPT ![x + 1] = S.r.w[y + 1],
                                    ![y + 1] = S.r.w[y + 1]]]

SwapRefs(S, x, y) ==
    [S EXCEPT !.r.w = [S.r.w EXCEPT ![x + 1] = S.r.w[y + 1],
                                    ![y + 1] = S.r.w[x + 1]]]

\* A comparison counted inside the interactive branch only.
CountComparisonInteractiveOnly(S) ==
    IF S.r.bench THEN S
    ELSE LET T == [S EXCEPT !.r.cs.comparisons = @ + 1]
         IN [T EXCEPT !.stats.comparisons = T.r.cs.comparisons]

\* currentStats.comparisons++; if (!isBenchmark) updateStats({comparisons})
CountComparison(S) ==
    LET T == [S EXCEPT !.r.cs.comparisons = @ + 1]
    IN IF S.r.bench THEN T
       ELSE [T EXCEPT !.stats.comparisons = T.r.cs.comparisons]

\* A swap counted on the displayed statistics, which every start resets.
CountSwapOnDisplayed(S) ==
    IF S.r.bench THEN [S EXCEPT !.r.cs.swaps = @ + 1]
    ELSE LET T == [S EXCEPT !.stats.swaps = @ + 1]
         IN [T EXCEPT !.r.cs.swaps = T.stats.swaps]

\* currentStats.swaps++; if (!isBenchmark) updateStats({swaps})
CountSwap(S) ==
    LET T == [S EXCEPT !.r.cs.swaps = @ + 1]
    IN IF S.r.bench THEN T
       ELSE [T EXCEPT !.stats.swaps = T.r.cs.swaps]

\* setTimeout converts its delay to an integer (0.5 becomes 0).
TimerDelay(ms2) == ms2 \div 2

\* sleep(ms): setTimeout(checkPause, ms); ms2 is twice the argument.
sleep(S, ms2, pc) ==
    [S EXCEPT !.r.wait = "timer", !.r.ms = TimerDelay(ms2), !.r.armed = S.now,
              !.r.pc = pc]

\* await sleep(speed), and await sleep(speed / 2) of the merge's drains.
Pace(S, pc) == sleep(S, 2 * S.r.speed, pc)
PaceHalf(S, pc) == sleep(S, S.r.speed, pc)

\* An engine that takes every call for an interactive one.
InteractiveAlways(r) == TRUE

\* !isBenchmark
Interactive(r) == ~r.bench

\* A log that keeps only its last entry: setSortHistory([historyEntry]).
addToHistoryOnly(S) ==
    [S EXCEPT !.sortHistory =
        <<[id |-> S.now, algorithm |-> S.r.alg, arraySize |-> S.r.size,
           comparisons |-> S.r.cs.comparisons, swaps |-> S.r.cs.swaps]>>]

\* setSortHistory(prev => [...prev, historyEntry])
addToHistory(S) ==
    [S EXCEPT !.sortHistory = Append(@,
        [id |-> S.now, algorithm |-> S.r.alg, arraySize |-> S.r.size,
         comparisons |-> S.r.cs.comparisons, swaps |-> S.r.cs.swaps])]

\* The first lines of every engine.
Enter(S, pc) ==
    LET T == IF S.r.bench THEN S ELSE setSorting(S, TRUE)
    IN [T EXCEPT !.r.w = S.r.arr, !.r.pc = pc,
                 !.r.given = [x \in DOMAIN S.r.arr |-> S.heap[S.r.arr[x]]],
                 !.r.input = [x \in DOMAIN S.r.arr |-> S.heap[S.r.arr[x]].value]]

\* The last lines of every engine, after its elements are marked sorted.
Leave(S) ==
    LET T == IF S.r.bench THEN S
             ELSE addToHistory(setSorting(setArray(S), FALSE))
    IN [T EXCEPT !.r.pc = "done",
                 !.r.result = [x \in DOMAIN S.r.w |-> S.heap[S.r.w[x]].value]]

MarkAllSorted(S) == SetFlag(S, 0..(Len(S.r.w) - 1), "isSorted", TRUE)

\* An epilogue that forgets the first element.
LeaveFirstUnmarked(S) ==
    IF S.r.bench THEN Leave(S)
    ELSE IF Len(S.r.w) = 0 THEN Goto(S, "threw")
    ELSE Leave(S)

\* workingArray[0].isSorted = true throws a TypeError on an empty array.
MarkFirstSortedAndLeave(S) ==
    IF S.r.bench THEN Leave(S)
    ELSE IF Len(S.r.w) = 0 THEN Goto(S, "threw")
    ELSE Leave(SetFlag(S, {0}, "isSorted", TRUE))

\* ------------------------------------------------------------- bubbleSort
\* An inner loop that scans every adjacent pair in every pass.
InnerBoundWhole(n, i) == n - 1

\* for (let j = 0; j < n - i - 1; j++)
InnerBound(n, i) == n - i - 1

\* A pass that marks the position of its own index.
PassMarksFront(n, i) == i

\* workingArray[n - i - 1].isSorted = true
PassMarks(n, i) == n - i - 1

BubbleStep(S) ==
    LET r == S.r
        n == Len(r.w)
        ui == Interactive(r)
    IN CASE r.pc = "start" ->
            [Enter(S, "b_outer") EXCEPT !.r.i = 0]
         [] r.pc = "b_outer" ->
            IF r.i < n - 1
            THEN [setCurrentStep(S, <<"Passe", r.i + 1, n - 1>>)
                    EXCEPT !.r.j = 0, !.r.pc = "b_inner"]
            ELSE Goto(S, "b_finish")
         [] r.pc = "b_inner" ->
            IF r.j < InnerBound(n, r.i)
            THEN IF ui
                 THEN Pace(setArray(SetFlag(S, {r.j, r.j + 1}, "isComparing", TRUE)),
                           "b_compare")
                 ELSE Goto(S, "b_compare")
            ELSE [(IF ui THEN SetFlag(S, {PassMarks(n, r.i)}, "isSorted", TRUE) ELSE S)
                    EXCEPT !.r.i = r.i + 1, !.r.pc = "b_outer"]
         [] r.pc = "b_compare" ->
            LET T == CountComparison(S)
            IN IF Val(T, r.j) > Val(T, r.j + 1)
               THEN IF ui
                    THEN Pace(setArray(SetFlag(T, {r.j, r.j + 1}, "isSwapping", TRUE)),
                              "b_swap")
                    ELSE Goto(T, "b_swap")
               ELSE Goto(T, "b_reset")
         [] r.pc = "b_swap" ->
            Goto(CountSwap(SwapRefs(S, r.j, r.j + 1)), "b_reset")
         [] r.pc = "b_reset" ->
            LET T == IF ui
                     THEN setArray(SetFlag(SetFlag(S, {r.j, r.j + 1}, "isComparing", FALSE),
                                           {r.j, r.j + 1}, "isSwapping", FALSE))
                     ELSE S
            IN [T EXCEPT !.r.j = r.j + 1, !.r.pc = "b_inner"]
         [] r.pc = "b_finish" ->
            MarkFirstSortedAndLeave(S)


\* ------------------------------------------------------------- call stack
(* The recursive helpers (quickSortHelper, mergeSortHelper, heapify) run    *)
(* on an explicit stack of pending calls; the head is the call to run next. *)
Frame(kind, a, b, c) == [kind |-> kind, a |-> a, b |-> b, c |-> c]
Push(S, frames) == [S EXCEPT !.r.stack = frames \o @]
Pop(S) == [S EXCEPT !.r.stack = Tail(@)]

\* ------------------------------------------------------------- quickSort
QuickStep(S) ==
    LET r == S.r
        n == Len(r.w)
        ui == Interactive(r)
    IN CASE r.pc = "start" ->
            Push(Enter(S, "q_call"), <<Frame("call", 0, Len(r.arr) - 1, 0)>>)
         [] r.pc = "q_call" ->
            \* quickSortHelper(low, high)
            IF r.stack = <<>> THEN Goto(S, "q_finish")
            ELSE LET f == Head(r.stack)
                 IN IF f.a < f.b
                    THEN [setCurrentStep(Pop(S), <<"Partition", f.a, f.b>>)
                            EXCEPT !.r.low = f.a, !.r.high = f.b,
                                   !.r.pivot = Val(S, f.b),
                                   !.r.i = f.a - 1, !.r.j = f.a,
                                   !.r.pc = "q_loop"]
                    ELSE Pop(S)
         [] r.pc = "q_loop" ->
            IF r.j < r.high
            THEN IF ui
                 THEN Pace(setArray(SetFlag(S, {r.j, r.high}, "isComparing", TRUE)),
                           "q_compare")
                 ELSE Goto(S, "q_compare")
            ELSE Goto(S, "q_place")
         [] r.pc = "q_compare" ->
            LET T == CountComparison(S)
            IN IF Val(T, r.j) < r.pivot
               THEN LET U == [T EXCEPT !.r.i = r.i + 1]
                    IN IF ui
                       THEN Pace(setArray(SetFlag(U, {r.i + 1, r.j}, "isSwapping", TRUE)),
                                 "q_swap")
                       ELSE Goto(U, "q_swap")
               ELSE Goto(T, "q_reset")
         [] r.pc = "q_swap" ->
            Goto(CountSwap(SwapRefs(S, r.i, r.j)), "q_reset")
         [] r.pc = "q_reset" ->
            \* no setArray here: the cleared flags are published by a later step
            LET T == IF ui
                     THEN SetFlag(SetFlag(S, {r.j, r.high}, "isComparing", FALSE),
                                  (IF Defined(S, r.i) THEN {r.i} ELSE {}) \cup {r.j},
                                  "isSwapping", FALSE)
                     ELSE S
            IN [T EXCEPT !.r.j = r.j + 1, !.r.pc = "q_loop"]
         [] r.pc = "q_place" ->
            \* pi = i + 1; quickSortHelper(low, pi - 1); quickSortHelper(pi + 1, high)
            Goto(Push(CountSwap(SwapRefs(S, r.i + 1, r.high)),
                      <<Frame("call", r.low, r.i, 0),
                        Frame("call", r.i + 2, r.high, 0)>>),
                 "q_call")
         [] r.pc = "q_finish" ->
            Leave(IF ui THEN MarkAllSorted(S) ELSE S)

\* ------------------------------------------------------------- mergeSort
Slice(s, from, to) == [x \in 1..(to - from) |-> s[from + x]]

\* A placement that always copies the head of the left run.
PlaceLeftHead(S, src) ==
    LET o == FreshRef(S.heap)
        obj == [S.heap[S.r.L[1]] EXCEPT !.isComparing = FALSE]
    IN [S EXCEPT !.heap = [p \in DOMAIN S.heap \cup {o} |->
                              IF p = o THEN obj ELSE S.heap[p]],
                 !.r.w = [S.r.w EXCEPT ![S.r.k + 1] = o]]

\* workingArray[k] = {...src, isComparing: false}: a new object.
Place(S, src) ==
    LET o == FreshRef(S.heap)
        obj == [S.heap[src] EXCEPT !.isComparing = FALSE]
    IN [S EXCEPT !.heap = [p \in DOMAIN S.heap \cup {o} |->
                              IF p = o THEN obj ELSE S.heap[p]],
                 !.r.w = [S.r.w EXCEPT ![S.r.k + 1] = o]]

\* A merge that takes the right run's head when the two heads are equal.
TakesLeftStrict(l, r) == l < r

\* if (L[i].value <= R[j].value)
TakesLeft(l, r) == l <= r

\* A drain that places its elements without counting them.
CountDrainedNot(S) == S

\* currentStats.swaps++ of the two drain loops
CountDrained(S) == CountSwap(S)

MergeStep(S) ==
    LET r == S.r
        ui == Interactive(r)
    IN CASE r.pc = "start" ->
            Push(Enter(S, "m_call"), <<Frame("call", 0, Len(r.arr) - 1, 0)>>)
         [] r.pc = "m_call" ->
            IF r.stack = <<>> THEN Goto(S, "m_finish")
            ELSE LET f == Head(r.stack)
                 IN IF f.kind = "call"
                    THEN \* mergeSortHelper(left, right)
                         IF f.a < f.b
                         THEN LET mid == (f.a + f.b) \div 2
                              IN Push(setCurrentStep(Pop(S), <<"Division", f.a, f.b>>),
                                      <<Frame("call", f.a, mid, 0),
                                        Frame("call", mid + 1, f.b, 0),
                                        Frame("merge", f.a, mid, f.b)>>)
                         ELSE Pop(S)
                    ELSE \* merge(left, mid, right)
                         [Pop(S) EXCEPT !.r.low = f.a, !.r.mid = f.b, !.r.high = f.c,
                                        !.r.n1 = f.b - f.a + 1, !.r.n2 = f.c - f.b,
                                        !.r.L = Slice(r.w, f.a, f.b + 1),
                                        !.r.R = Slice(r.w, f.b + 1, f.c + 1),
                                        !.r.i = 0, !.r.j = 0, !.r.k = f.a,
                                        !.r.pc = "m_loop"]
         [] r.pc = "m_loop" ->
            IF r.i < r.n1 /\ r.j < r.n2
            THEN IF ui
                 THEN Pace(setArray(SetFlag(S, {r.k}, "isComparing", TRUE)), "m_compare")
                 ELSE Goto(S, "m_compare")
            ELSE Goto(S, "m_drainL")
         [] r.pc = "m_compare" ->
            LET T == CountComparison(S)
                U == IF TakesLeft(T.heap[r.L[r.i + 1]].value, T.heap[r.R[r.j + 1]].value)
                     THEN [Place(T, r.L[r.i + 1]) EXCEPT !.r.i = r.i + 1]
                     ELSE [Place(T, r.R[r.j + 1]) EXCEPT !.r.j = r.j + 1]
                V == CountSwap(U)
            IN IF ui THEN Pace(setArray(V), "m_next") ELSE Goto(V, "m_next")
         [] r.pc = "m_next" ->
            [S EXCEPT !.r.k = r.k + 1, !.r.pc = "m_loop"]
         [] r.pc = "m_drainL" ->
            IF r.i < r.n1
            THEN LET T == CountDrained([Place(S, r.L[r.i + 1])
                                          EXCEPT !.r.i = r.i + 1, !.r.k = r.k + 1])
                 IN IF ui THEN PaceHalf(setArray(T), "m_drainL") ELSE T
            ELSE Goto(S, "m_drainR")
         [] r.pc = "m_drainR" ->
            IF r.j < r.n2
            THEN LET T == CountDrained([Place(S, r.R[r.j + 1])
                                          EXCEPT !.r.j = r.j + 1, !.r.k = r.k + 1])
                 IN IF ui THEN PaceHalf(setArray(T), "m_drainR") ELSE T
            ELSE Goto(S, "m_call")
         [] r.pc = "m_finish" ->
            Leave(IF ui THEN MarkAllSorted(S) ELSE S)

\* ------------------------------------------------------------- heapSort
\* The elements heapify(n, i) marks: i and its children below n.
Family(n, i) == {i} \cup {c \in {2 * i + 1, 2 * i + 2} : c < n}

\* A heapify that keeps the smallest of the three at the parent.
Smallest(S, n, i) ==
    LET left == 2 * i + 1
        right == 2 * i + 2
        l1 == IF left < n /\ Val(S, left) < Val(S, i) THEN left ELSE i
    IN IF right < n /\ Val(S, right) < Val(S, l1) THEN right ELSE l1

\* The index heapify(n, i) finds largest.
Largest(S, n, i) ==
    LET left == 2 * i + 1
        right == 2 * i + 2
        l1 == IF left < n /\ Val(S, left) > Val(S, i) THEN left ELSE i
    IN IF right < n /\ Val(S, right) > Val(S, l1) THEN right ELSE l1

\* A build phase that starts one parent too high.
LastParentShort(n) == (n \div 2) - 2

\* Math.floor(workingArray.length / 2) - 1
LastParent(n) == (n \div 2) - 1

HeapStep(S) ==
    LET r == S.r
        n == Len(r.w)
        ui == Interactive(r)
        f == Head(r.stack)
    IN CASE r.pc = "start" ->
            [Enter(S, "h_build") EXCEPT !.r.i = LastParent(Len(r.arr)),
                                        !.r.phase = "build"]
         [] r.pc = "h_build" ->
            IF r.i >= 0
            THEN Goto(Push(S, <<Frame("heapify", n, r.i, r.i)>>), "hf_enter")
            ELSE [S EXCEPT !.r.i = n - 1, !.r.phase = "extract", !.r.pc = "h_extract"]
         [] r.pc = "hf_enter" ->
            \* heapify(n, i), n = f.a, i = f.b
            IF ui
            THEN Pace(setArray(SetFlag(S, Family(f.a, f.b), "isComparing", TRUE)),
                      "hf_compare")
            ELSE Goto(S, "hf_compare")
         [] r.pc = "hf_compare" ->
            LET T == CountComparison(CountComparison(S))
                largest == Largest(T, f.a, f.b)
                U == [T EXCEPT !.r.stack = <<Frame("heapify", f.a, f.b, largest)>> \o Tail(@)]
            IN IF largest # f.b
               THEN IF ui
                    THEN Pace(setArray(SetFlag(U, {f.b, largest}, "isSwapping", TRUE)),
                              "hf_swap")
                    ELSE Goto(U, "hf_swap")
               ELSE Goto(U, "hf_exit")
         [] r.pc = "hf_swap" ->
            LET T == CountSwap(SwapRefs(S, f.b, f.c))
                U == IF ui THEN setArray(SetFlag(T, {f.b, f.c}, "isSwapping", FALSE))
                     ELSE T
            IN Goto(Push(U, <<Frame("heapify", f.a, f.c, f.c)>>), "hf_enter")
         [] r.pc = "hf_exit" ->
            LET T == IF ui
                     THEN setArray(SetFlag(S, Family(f.a, f.b), "isComparing", FALSE))
                     ELSE S
                U == Pop(T)
            IN IF U.r.stack # <<>> THEN U
               ELSE IF r.phase = "build"
                    THEN [U EXCEPT !.r.i = r.i - 1, !.r.pc = "h_build"]
                    ELSE [U EXCEPT !.r.i = r.i - 1, !.r.pc = "h_extract"]
         [] r.pc = "h_extract" ->
            IF r.i > 0
            THEN IF ui
                 THEN Pace(setArray(SetFlag(S, {0, r.i}, "isSwapping", TRUE)), "h_take")
                 ELSE Goto(S, "h_take")
            ELSE Goto(S, "h_finish")
         [] r.pc = "h_take" ->
            LET T == CountSwap(SwapRefs(S, 0, r.i))
                U == IF ui
                     THEN setArray(SetFlag(SetFlag(T, {r.i}, "isSorted", TRUE),
                                           {0, r.i}, "isSwapping", FALSE))
                     ELSE T
            IN Goto(Push(U, <<Frame("heapify", r.i, 0, 0)>>), "hf_enter")
         [] r.pc = "h_finish" ->
            MarkFirstSortedAndLeave(S)

\* ------------------------------------------------------------- engines
EngineStep(S) ==
    CASE S.r.alg = "bubble" -> BubbleStep(S)
      [] S.r.alg = "quick" -> QuickStep(S)
      [] S.r.alg = "merge" -> MergeStep(S)
      [] S.r.alg = "heap" -> HeapStep(S)

Suspended(r) == r.wait # "none"
Ended(r) == r.pc \in {"done", "threw"}

RECURSIVE Run(_)
\* Runs the engine until it awaits a timer or ends.
Run(S) == IF Suspended(S.r) \/ Ended(S.r) THEN S ELSE Run(EngineStep(S))


\* ------------------------------------------------------------- component
NoStats == [comparisons |-> 0, swaps |-> 0]
\* bench: alg and size index the pair runBenchmarks runs next; slept tells
\* that an engine it awaited went to sleep; lens and threw are history kept
\* for the properties: the length of the array each pushed measure was taken
\* on, and the number of engine calls that threw; spent is the time the
\* engine calls have taken so far.
NoBench == [active |-> FALSE, alg |-> 1, size |-> 1, slept |-> FALSE,
            times |-> <<>>, comparisons |-> <<>>, swaps |-> <<>>,
            results |-> <<>>, lens |-> <<>>, threw |-> 0, spent |-> 0]

\* The component state an engine call r works on.
World(r) == [heap |-> heap, array |-> array, sorting |-> sorting, stats |-> stats,
             currentStep |-> currentStep, sortHistory |-> sortHistory, now |-> now,
             r |-> r]

\* What is kept of a call that has ended: its locals are gone.
Tidy(r) ==
    IF Ended(r)
    THEN [NewCall(r.alg, r.speed, r.bench, <<>>, r.size)
            EXCEPT !.pc = r.pc, !.cs = r.cs, !.input = r.input, !.result = r.result]
    ELSE r

RECURSIVE Flatten(_)
Flatten(ss) == IF ss = <<>> THEN <<>> ELSE Head(ss) \o Flatten(Tail(ss))

RECURSIVE Dedup(_, _)
\* seq without its repetitions, appended to acc.
Dedup(seq, acc) ==
    IF seq = <<>> THEN acc
    ELSE Dedup(Tail(seq),
               IF Head(seq) \in Range(acc) THEN acc ELSE Append(acc, Head(seq)))

(* References are names: the objects are renumbered in the order in which   *)
(* the displayed array and the calls in flight reach them, and an object    *)
(* none of them reaches is garbage.                                         *)
Collect(h, arr, rs) ==
    LET live == Dedup(arr \o Flatten([x \in DOMAIN rs |->
                        rs[x].w \o rs[x].arr \o rs[x].L \o rs[x].R]), <<>>)
        new(o) == CHOOSE n \in DOMAIN live : live[n] = o
        map(seq) == [x \in DOMAIN seq |-> new(seq[x])]
    IN [heap |-> [n \in DOMAIN live |-> h[live[n]]],
        array |-> map(arr),
        runs |-> [x \in DOMAIN rs |->
                    [rs[x] EXCEPT !.w = map(@), !.arr = map(@),
                                  !.L = map(@), !.R = map(@)]]]

\* The state after an engine call ran up to S; rs are the interactive calls.
Commit(S, rs) ==
    LET c == Collect(S.heap, S.array, [x \in DOMAIN rs |-> Tidy(rs[x])])
    IN /\ heap' = c.heap
       /\ array' = c.array
       /\ runs' = c.runs
       /\ sorting' = S.sorting
       /\ stats' = S.stats
       /\ currentStep' = S.currentStep
       /\ sortHistory' = S.sortHistory

Idle == ~bench.active

Init ==
    \E vals \in [1..NBars -> 1..MaxVal] :
        LET a == AllocAll(<<>>, [x \in 1..NBars |-> ArrayBar(vals[x])], <<>>)
        IN /\ heap = a.heap
           /\ array = a.refs
           /\ sorting = FALSE
           /\ algorithm = "bubble"
           /\ speed = DEFAULT_SPEED
           /\ stats = NoStats
           /\ isPaused = FALSE
           /\ pauseRef = FALSE
           /\ currentStep = <<>>
           /\ sortHistory = <<>>
           /\ benchmarkResults = <<>>
           /\ runs = <<>>
           /\ bench = NoBench
           /\ edits = 0
           /\ now = 0

\* ------------------------------------------------------------- handlers
\* The start button is rendered with disabled={sorting && !isPaused}.
StartEnabled == ~(sorting /\ ~isPaused)

startSorting ==
    /\ Idle
    /\ StartEnabled
    /\ Len(runs) < MaxRuns
    /\ pauseRef' = FALSE
    /\ isPaused' = FALSE
    /\ LET r == NewCall(algorithm, speed, FALSE, array, Len(array))
           S == Run([World(r) EXCEPT !.stats = NoStats])
       IN Commit(S, Append(runs, S.r))
    /\ UNCHANGED <<now, algorithm, speed, benchmarkResults, bench, edits>>

\* A pause button that flips the flag sleep reads and leaves the state alone.
togglePauseRefOnly ==
    /\ Idle
    /\ sorting
    /\ pauseRef' = ~pauseRef
    /\ UNCHANGED <<now, heap, array, sorting, algorithm, speed, stats, isPaused,
                   currentStep, sortHistory, benchmarkResults, runs, bench, edits>>

\* The pause button is rendered only while sorting.
togglePause ==
    /\ Idle
    /\ sorting
    /\ pauseRef' = ~pauseRef
    /\ isPaused' = ~isPaused
    /\ UNCHANGED <<now, heap, array, sorting, algorithm, speed, stats, currentStep,
                   sortHistory, benchmarkResults, runs, bench, edits>>

generateArray ==
    /\ Idle
    /\ ~sorting
    /\ edits < MaxEdits
    /\ \E vals \in [1..NBars -> 1..MaxVal] :
        LET a == AllocAll(heap, [x \in 1..NBars |-> ArrayBar(vals[x])], <<>>)
            c == Collect(a.heap, a.refs, runs)
        IN /\ heap' = c.heap
           /\ array' = c.array
           /\ runs' = c.runs
    /\ stats' = NoStats
    /\ edits' = edits + 1
    /\ UNCHANGED <<now, sorting, algorithm, speed, isPaused, pauseRef, currentStep,
                   sortHistory, benchmarkResults, bench>>

setAlgorithm ==
    /\ Idle
    /\ ~sorting
    /\ edits < MaxEdits
    /\ edits' = edits + 1
    /\ \E a \in AlgorithmSet \ {algorithm} : algorithm' = a
    /\ UNCHANGED <<now, heap, array, sorting, speed, stats, isPaused, pauseRef,
                   currentStep, sortHistory, benchmarkResults, runs, bench>>

setSpeed ==
    /\ Idle
    /\ ~sorting
    /\ edits < MaxEdits
    /\ edits' = edits + 1
    /\ \E s \in SpeedValues \ {speed} : speed' = s
    /\ UNCHANGED <<now, heap, array, sorting, algorithm, stats, isPaused, pauseRef,
                   currentStep, sortHistory, benchmarkResults, runs, bench>>

\* A millisecond passes.
tick ==
    /\ Idle
    /\ now < MaxNow
    /\ now' = now + 1
    /\ UNCHANGED <<heap, array, sorting, algorithm, speed, stats, isPaused,
                   pauseRef, currentStep, sortHistory, benchmarkResults, runs,
                   bench, edits>>

\* ------------------------------------------------------------- sleep
\* A checkPause that starts the engine over when it finds the flag set.
checkPausePollRestart(x) ==
    /\ Idle
    /\ Suspended(runs[x])
    /\ pauseRef
    /\ runs' = [runs EXCEPT ![x].wait = "poll", ![x].ms = POLL_MS, ![x].pc = "start"]
    /\ UNCHANGED <<now, heap, array, sorting, algorithm, speed, stats, isPaused,
                   pauseRef, currentStep, sortHistory, benchmarkResults, bench,
                   edits>>

\* A checkPause that does not look at the pause flag.
checkPausePollIgnored(x) ==
    /\ Idle
    /\ Suspended(runs[x])
    /\ pauseRef
    /\ LET S == Run(World([runs[x] EXCEPT !.wait = "none", !.ms = 0]))
       IN Commit(S, [runs EXCEPT ![x] = S.r])
    /\ UNCHANGED <<now, algorithm, speed, isPaused, pauseRef, benchmarkResults, bench,
                   edits>>

\* checkPause finds the pause flag set: it waits 100 ms and looks again.
checkPausePoll(x) ==
    /\ Idle
    /\ Suspended(runs[x])
    /\ pauseRef
    /\ runs' = [runs EXCEPT ![x].wait = "poll", ![x].ms = POLL_MS, ![x].armed = now]
    /\ UNCHANGED <<now, heap, array, sorting, algorithm, speed, stats, isPaused,
                   pauseRef, currentStep, sortHistory, benchmarkResults, bench,
                   edits>>

\* A checkPause that resolves only if the flag is clear when the timer first
\* fires: after a pause the promise is never resolved.
ResolvableFirstOnly(x) ==
    /\ Idle
    /\ runs[x].wait = "timer"
    /\ ~pauseRef

\* The timer of run x has fired and checkPause finds the flag clear.
Resolvable(x) ==
    /\ Idle
    /\ Suspended(runs[x])
    /\ ~pauseRef

\* checkPause finds the flag clear: resolve(true), and the engine goes on to
\* its next sleep, or to its end.
checkPauseResolve(x) ==
    /\ Resolvable(x)
    /\ LET S == Run(World([runs[x] EXCEPT !.wait = "none", !.ms = 0]))
       IN Commit(S, [runs EXCEPT ![x] = S.r])
    /\ UNCHANGED <<now, algorithm, speed, isPaused, pauseRef, benchmarkResults, bench,
                   edits>>

\* ------------------------------------------------------------- runBenchmarks
(* runBenchmarks awaits engines that never wait for a timer, so the whole   *)
(* call runs before any other handler or timer: while bench.active no other *)
(* action is enabled.  One step runs one (algorithm, size) pair, on an      *)
(* array of random values.                                                  *)
runBenchmarks ==
    /\ Idle
    /\ ~sorting
    /\ bench' = [NoBench EXCEPT !.active = TRUE, !.spent = bench.spent]
    /\ UNCHANGED <<now, heap, array, sorting, algorithm, speed, stats, isPaused,
                   pauseRef, currentStep, sortHistory, benchmarkResults, runs,
                   edits>>

RECURSIVE RunThrough(_)
\* The engine awaited to its end, through the timers it waits for.
RunThrough(S) ==
    LET T == Run(S)
    IN IF Ended(T.r) THEN T ELSE RunThrough([T EXCEPT !.r.wait = "none", !.r.ms = 0])

\* A measure that records the swaps only of a run that swapped.
PushMeasureIfSwapped(b, r, t) ==
    IF r.pc = "threw" THEN b
    ELSE [b EXCEPT !.times = Append(@, t),
                   !.comparisons = Append(@, r.cs.comparisons),
                   !.swaps = IF r.cs.swaps = 0 THEN @ ELSE Append(@, r.cs.swaps)]

\* A catch block that gives up the remaining algorithms.
PushMeasureAborting(b, r, t) ==
    IF r.pc = "threw" THEN [b EXCEPT !.alg = Len(Algorithms)]
    ELSE [b EXCEPT !.times = Append(@, t),
                   !.comparisons = Append(@, r.cs.comparisons),
                   !.swaps = Append(@, r.cs.swaps),
                   !.lens = Append(@, Len(r.input))]

\* times.push(testStats.timeElapsed); comparisons.push(...); swaps.push(...),
\* skipped when the engine threw.  t is the time the engine measured:
\* Date.now() at its end less Date.now() at its start.
PushMeasure(b, r, t) ==
    IF r.pc = "threw" THEN b
    ELSE [b EXCEPT !.times = Append(@, t),
                   !.comparisons = Append(@, r.cs.comparisons),
                   !.swaps = Append(@, r.cs.swaps),
                   !.lens = Append(@, Len(r.input))]

\* results.push({algorithm: alg, sizes, times, comparisons, swaps})
PushResult(b) ==
    [b EXCEPT !.results = Append(@, [algorithm |-> Algorithms[b.alg], sizes |-> sizes,
                                     times |-> b.times, comparisons |-> b.comparisons,
                                     swaps |-> b.swaps, lens |-> b.lens]),
              !.times = <<>>, !.comparisons = <<>>, !.swaps = <<>>, !.lens = <<>>]

\* testArray, testStats and arrayToSort of a pair: the call of its engine in
\* benchmark mode on new elements of the values vals.
TestCall(vals) ==
    LET a == AllocAll(heap, [x \in DOMAIN vals |-> ArrayBar(vals[x])], <<>>)
    IN [World(NewCall(Algorithms[bench.alg], speed, TRUE, a.refs, Len(array)))
            EXCEPT !.heap = a.heap]

\* await engine(arrayToSort, testStats, true): the state the call ends in,
\* thrown or returned, and whether it went to sleep on the way.
AwaitEngine(W, throws) ==
    [S |-> IF throws THEN Goto(RunThrough(W), "threw") ELSE RunThrough(W),
     slept |-> Suspended(Run(W).r)]

\* The end of an iteration: the next size, or after the last size
\* results.push and the next algorithm.
NextPair(b) ==
    IF bench.size < Len(sizes)
    THEN [b EXCEPT !.size = @ + 1]
    ELSE [PushResult(b) EXCEPT !.size = 1, !.alg = @ + 1]

\* setBenchmarkResults(results) once the loops are over.
EndOfPair(b) ==
    IF b.alg > Len(Algorithms)
    THEN /\ benchmarkResults' = b.results
         /\ bench' = [NoBench EXCEPT !.slept = b.slept, !.threw = b.threw,
                                     !.spent = b.spent]
    ELSE /\ benchmarkResults' = benchmarkResults
         /\ bench' = b

\* The try/catch of an iteration, whose engine call e took t milliseconds.
TryPair(e, throws, t) ==
    /\ Commit(e.S, runs)
    /\ EndOfPair(NextPair(PushMeasure(
            [bench EXCEPT !.slept = @ \/ e.slept,
                          !.threw = @ + (IF throws THEN 1 ELSE 0),
                          !.spent = @ + t], e.S.r, t)))

(* One iteration of the inner loop; throws tells that the awaited engine    *)
(* call rejects, which the catch block logs.  The call takes t             *)
(* milliseconds of the clock, 0 or more as the machine runs it; the calls  *)
(* of a behaviour take MaxElapsed milliseconds at most.                     *)
benchStep(throws) ==
    /\ bench.active
    /\ \E vals \in [1..sizes[bench.size] -> 1..MaxVal] :
       \E t \in 0..(MaxElapsed - bench.spent) :
        /\ now + t <= MaxNow
        /\ now' = now + t
        /\ TryPair(AwaitEngine(TestCall(vals), throws), throws, t)
    /\ UNCHANGED <<algorithm, speed, isPaused, pauseRef, edits>>

\* The engines as they are: none throws in benchmark mode.
benchPair == benchStep(FALSE)

\* An engine call of runBenchmarks that throws.
benchPairThrows == bench.threw < MaxThrows /\ benchStep(TRUE)

Next ==
    \/ startSorting
    \/ togglePause
    \/ generateArray
    \/ setAlgorithm
    \/ setSpeed
    \/ \E x \in DOMAIN runs : checkPausePoll(x)
    \/ \E x \in DOMAIN runs : checkPauseResolve(x)

Spec == Init /\ [][Next]_vars

\* The component with one interactive run, and its timers.
LiveNext ==
    \/ (runs = <<>> /\ startSorting)
    \/ togglePause
    \/ generateArray
    \/ setAlgorithm
    \/ setSpeed
    \/ \E x \in DOMAIN runs : checkPausePoll(x)
    \/ \E x \in DOMAIN runs : checkPauseResolve(x)

(* A timer that is set fires: setTimeout(checkPause, ms) runs checkPause for  *)
(* every run that sleeps.  The poll is weakly fair; so is the resolve, whose *)
(* WF_vars(checkPauseResolve(x)) is written out with Resolvable(x) for       *)
(* ENABLED <<checkPauseResolve(x)>>_vars (a resolve always moves the run).   *)
checkPause(x) ==
    /\ WF_vars(x \in DOMAIN runs /\ checkPausePoll(x))
    /\ \/ []<>~(x \in DOMAIN runs /\ Resolvable(x))
       \/ []<><<x \in DOMAIN runs /\ checkPauseResolve(x)>>_vars

LiveSpec == Init /\ [][LiveNext]_vars /\ \A x \in 1..MaxRuns : checkPause(x)

\* The component with its benchmark button, and at most one interactive run
\* of the default algorithm.
BenchNext ==
    \/ runBenchmarks
    \/ benchPair
    \/ (runs = <<>> /\ startSorting)
    \/ togglePause
    \/ \E x \in DOMAIN runs : checkPausePoll(x)
    \/ \E x \in DOMAIN runs : checkPauseResolve(x)

BenchSpec == Init /\ [][BenchNext]_vars

\* The timer of run x was armed in an earlier millisecond: the delays of
\* sleep(speed) and of the poll are of 1 ms at least.
Due(x) == runs[x].armed < now

(* The component with its clock: the runs started on the displayed array,   *)
(* their timers, and the milliseconds that pass between two handlers.       *)
ClockNext ==
    \/ startSorting
    \/ togglePause
    \/ tick
    \/ \E x \in DOMAIN runs : Due(x) /\ checkPausePoll(x)
    \/ \E x \in DOMAIN runs : Due(x) /\ checkPauseResolve(x)

ClockSpec == Init /\ [][ClockNext]_vars

(* The component with its history: the runs started on the displayed array, *)
(* also two at once, and the benchmark matrix, run once, between their      *)
(* timers.                                                                  *)
HistoryNext ==
    \/ startSorting
    \/ togglePause
    \/ (benchmarkResults = <<>> /\ runBenchmarks)
    \/ benchPair
    \/ \E x \in DOMAIN runs : checkPausePoll(x)
    \/ \E x \in DOMAIN runs : checkPauseResolve(x)

\* One displayed array, out of order: its first value is above the others.
HistoryInit ==
    /\ Init
    /\ \A k \in DOMAIN array : heap[array[k]].value = (IF k = 1 THEN 2 ELSE 1)

HistorySpec == HistoryInit /\ [][HistoryNext]_vars

\* runBenchmarks with engine calls that may throw.
FaultNext ==
    \/ runBenchmarks
    \/ benchPair
    \/ benchPairThrows

\* The displayed array plays no part in runBenchmarks: one array is enough.
FaultInit == Init /\ \A k \in DOMAIN array : heap[array[k]].value = 1

FaultSpec == FaultInit /\ [][FaultNext]_vars

\* ------------------------------------------------------------- engines alone
(* The engines as functions: one call, in benchmark or in interactive mode, *)
(* on an array of length 0..PureLen over 1..PureVal.  An interactive call   *)
(* is made as startSorting makes it, on a copy of the displayed array, and  *)
(* proceeds from one sleep to the next as its timers fire; a benchmark call *)
(* is made on an array that is not displayed and never sleeps.  The pause   *)
(* flag stays clear and no other handler runs.                              *)
PureInit ==
    \E n \in 0..PureLen : \E vals \in [1..n -> 1..PureVal] : \E alg \in AlgorithmSet :
      \E isBenchmark \in BOOLEAN :
        LET a == AllocAll(<<>>, [x \in 1..n |-> ArrayBar(vals[x])], <<>>)
            shown == IF isBenchmark THEN <<>> ELSE a.refs
        IN /\ heap = a.heap
           /\ array = shown
           /\ sorting = FALSE
           /\ algorithm = alg
           /\ speed = DEFAULT_SPEED
           /\ stats = NoStats
           /\ isPaused = FALSE
           /\ pauseRef = FALSE
           /\ currentStep = <<>>
           /\ sortHistory = <<>>
           /\ benchmarkResults = <<>>
           /\ runs = <<NewCall(alg, DEFAULT_SPEED, isBenchmark, a.refs, Len(shown))>>
           /\ bench = NoBench
           /\ edits = 0
           /\ now = 0

\* The call of the engine: it runs to its first sleep, or to its end.
callEngine ==
    /\ runs[1].pc = "start"
    /\ LET S == Run(World(runs[1]))
       IN Commit(S, <<S.r>>)
    /\ UNCHANGED <<now, algorithm, speed, isPaused, pauseRef, benchmarkResults, bench,
                   edits>>

PureNext ==
    \/ callEngine
    \/ \E x \in DOMAIN runs : checkPauseResolve(x)

PureSpec == PureInit /\ [][PureNext]_vars


\* ------------------------------------------------------------- properties
IsSorted(vals) == \A x, y \in DOMAIN vals : x < y => vals[x] <= vals[y]

Count(vals, v) == Cardinality({x \in DOMAIN vals : vals[x] = v})

SameValues(a, b) ==
    /\ Len(a) = Len(b)
    /\ \A v \in Range(a) \cup Range(b) : Count(a, v) = Count(b, v)

InFlight(r) == ~Ended(r)

\* An engine call on fresh elements of the given values, nothing else around.
Blank(alg, vals, isBenchmark) ==
    LET a == AllocAll(<<>>, [x \in DOMAIN vals |-> ArrayBar(vals[x])], <<>>)
    IN [heap |-> a.heap, array |-> a.refs, sorting |-> FALSE, stats |-> NoStats,
        currentStep |-> <<>>, sortHistory |-> <<>>, now |-> 0,
        r |-> NewCall(alg, DEFAULT_SPEED, isBenchmark, a.refs, Len(vals))]

\* The silent run, and the interactive run that is never paused.
Silent(alg, vals) == RunThrough(Blank(alg, vals, TRUE)).r
Unpaused(alg, vals) == RunThrough(Blank(alg, vals, FALSE)).r

Outcome(r) == <<r.pc, r.result, r.cs>>

\* C1: in benchmark mode each of the four engines returns, for a non-empty
\* array, the input's values in non-decreasing order (same multiset).
C1_SilentSortsInput ==
    \A x \in DOMAIN runs :
        (runs[x].bench /\ runs[x].pc # "start" /\ runs[x].input # <<>>)
            => /\ runs[x].pc = "done"
               /\ IsSorted(runs[x].result)
               /\ SameValues(runs[x].input, runs[x].result)

C1_Witness ==
    /\ runs # <<>> /\ runs[1].bench /\ runs[1].pc = "done"
    /\ Len(runs[1].input) = PureLen
    /\ ~IsSorted(runs[1].input)
    /\ algorithm = "heap"

\* C2: whatever the pauses so far, a run in flight (suspended with the pause
\* flag set or clear) ends, and a run that has ended did end, with the final
\* order and the comparisons and swaps of the run that is never paused.
C2_PauseKeepsOutcome ==
    \A x \in DOMAIN runs :
        ~runs[x].bench =>
            Outcome(RunThrough(World([runs[x] EXCEPT !.wait = "none", !.ms = 0])).r)
                = Outcome(Unpaused(runs[x].alg, runs[x].input))

C2_Witness ==
    \E x \in DOMAIN runs :
        /\ runs[x].wait = "poll" /\ pauseRef
        /\ runs[x].cs.comparisons > 0 /\ runs[x].cs.swaps > 0

\* C3 (as claimed): at most one interactive run is in flight at any time.
C3_OneRunInFlight ==
    Cardinality({x \in DOMAIN runs : InFlight(runs[x])}) <= 1

\* C4: a step taken with the pause flag set that launches no new run (a poll
\* of the flag, or the click that clears it) changes no interactive run (its
\* counters, its array, its position), no element and not the displayed
\* array: the only change is a run's timer becoming the 100 ms poll, so a run
\* resumes at the step where it was suspended.
C4_NoProgressWhilePaused ==
    [][(pauseRef /\ Len(runs') = Len(runs)) =>
        /\ heap' = heap /\ array' = array /\ stats' = stats
        /\ \A x \in DOMAIN runs :
            [runs'[x] EXCEPT !.wait = "", !.ms = 0, !.armed = 0]
                = [runs[x] EXCEPT !.wait = "", !.ms = 0, !.armed = 0]]_vars

C4_Witness ==
    \E x \in DOMAIN runs :
        /\ pauseRef /\ runs[x].wait = "poll" /\ runs[x].pc = "b_swap"

\* C6: an interactive run ends with the final order and the comparisons and
\* swaps of the silent run of its algorithm on its input.
C6_InteractiveEqualsSilent ==
    \A x \in DOMAIN runs :
        (~runs[x].bench /\ Ended(runs[x]))
            => Outcome(runs[x]) = Outcome(Silent(runs[x].alg, runs[x].input))

C6_Witness ==
    \E x \in DOMAIN runs :
        /\ ~runs[x].bench /\ runs[x].pc = "done" /\ runs[x].alg = "merge"
        /\ runs[x].cs.comparisons > 1 /\ ~IsSorted(runs[x].input)

\* The delay of a step at speed s: await sleep(speed).
StepDelay(s) == TimerDelay(2 * s)

\* C7 (as claimed): a higher speed setting never gives a longer step delay:
\* the delay a run waits for is at least the delay of any higher setting.
C7_HigherSpeedNotSlower ==
    \A x \in DOMAIN runs :
        (runs[x].wait = "timer" /\ runs[x].pc \notin {"m_drainL", "m_drainR"})
            => \A s \in SLIDER_MIN..SLIDER_MAX :
                  s > runs[x].speed => StepDelay(s) <= runs[x].ms

\* C8 (as claimed): the elements of the array passed to a run in flight are as
\* they were passed, the run shares no element with the displayed array, and
\* no two runs in flight share an element.
C8_PrivateCopy ==
    \A x \in DOMAIN runs :
        InFlight(runs[x]) =>
            /\ [k \in DOMAIN runs[x].arr |-> heap[runs[x].arr[k]]] = runs[x].given
            /\ Range(runs[x].w) \cap Range(array) = {}
            /\ \A y \in DOMAIN runs :
                (y # x /\ InFlight(runs[y]))
                    => Range(runs[x].w) \cap Range(runs[y].w) = {}


Values(arr) == [k \in DOMAIN arr |-> heap[arr[k]].value]

\* Run x has completed: its sorted array is published, sorting is false and
\* its statistics are in the history.
Completed(x) ==
    /\ x \in DOMAIN runs /\ runs[x].pc = "done"
    /\ IsSorted(runs[x].result) /\ SameValues(runs[x].input, runs[x].result)
    /\ Values(array) = runs[x].result
    /\ ~sorting
    /\ \E h \in DOMAIN sortHistory :
        /\ sortHistory[h].comparisons = runs[x].cs.comparisons
        /\ sortHistory[h].swaps = runs[x].cs.swaps

Started(x) == x \in DOMAIN runs /\ InFlight(runs[x])

\* C5 (as claimed): if the pause flag is not set forever (it is clear again
\* and again), every interactive run in flight completes.
C5_CompletesUnlessPausedForever ==
    ([]<>~pauseRef) => \A x \in 1..MaxRuns : Started(x) ~> Completed(x)

\* C5 (amended): if from some point on the pause flag stays clear, every
\* interactive run in flight completes.
C5_CompletesOncePauseStaysClear ==
    (<>[]~pauseRef) => \A x \in 1..MaxRuns : Started(x) ~> Completed(x)

C5_Witness ==
    /\ Completed(1) /\ runs[1].alg = "quick" /\ runs[1].cs.swaps > NBars

\* C9: no engine awaited by runBenchmarks goes to sleep (the only place where
\* the pause flag is read), and while runBenchmarks is running every step
\* runs the next (algorithm, size) pair of the lists to its end, in order,
\* leaving the pause flag and the interactive runs as they are; the step
\* after the last pair publishes the results.
C9_BenchmarkRunsEveryPair ==
    [][/\ ~bench'.slept
       /\ bench.active =>
            /\ pauseRef' = pauseRef /\ isPaused' = isPaused /\ runs' = runs
            /\ IF bench.size < Len(sizes)
               THEN /\ bench'.active
                    /\ bench'.alg = bench.alg /\ bench'.size = bench.size + 1
                    /\ Len(bench'.comparisons) = bench.size
               ELSE IF bench.alg < Len(Algorithms)
               THEN /\ bench'.active
                    /\ bench'.alg = bench.alg + 1 /\ bench'.size = 1
                    /\ Len(bench'.results) = bench.alg
               ELSE /\ ~bench'.active
                    /\ Len(benchmarkResults') = Len(Algorithms)]_vars

C9_Witness ==
    /\ bench.active /\ bench.alg = Len(Algorithms) /\ bench.size = Len(sizes)
    /\ \E x \in DOMAIN runs : runs[x].pc = "done"
    /\ \E a \in DOMAIN bench.results : bench.results[a].swaps[NumSizes] > 0

\* C10: the results runBenchmarks publishes hold one entry per algorithm of
\* the list, in the list's order; each entry's sizes is the size list, and
\* its times, comparisons and swaps are as long as the size list.
C10_OneResultPerAlgorithm ==
    benchmarkResults # <<>> =>
        /\ Len(benchmarkResults) = Len(Algorithms)
        /\ \A a \in DOMAIN benchmarkResults :
            /\ benchmarkResults[a].algorithm = Algorithms[a]
            /\ benchmarkResults[a].sizes = sizes
            /\ Len(benchmarkResults[a].times) = Len(sizes)
            /\ Len(benchmarkResults[a].comparisons) = Len(sizes)
            /\ Len(benchmarkResults[a].swaps) = Len(sizes)

\* A matrix has been published in which a call swapped nothing and a call
\* took a millisecond or more.
C10_Witness ==
    /\ benchmarkResults # <<>> /\ ~bench.active
    /\ \E a \in DOMAIN benchmarkResults :
        /\ benchmarkResults[a].swaps[NumSizes] = 0
        /\ benchmarkResults[a].comparisons[NumSizes] > 0
    /\ \E a \in DOMAIN benchmarkResults : \E k \in DOMAIN sizes :
        benchmarkResults[a].times[k] > 0

RECURSIVE Measures(_)
\* The number of measures a list of results holds.
Measures(rs) == IF rs = <<>> THEN 0 ELSE Len(Head(rs).times) + Measures(Tail(rs))

\* C11: when an engine call of runBenchmarks throws, the step still moves on
\* to the next (algorithm, size) pair of the lists, and the step after the
\* last pair publishes one result per algorithm, in order, holding a measure
\* for every pair but those that threw.
C11_ThrowDoesNotAbort ==
    [][bench.active =>
        /\ IF bench.size < Len(sizes)
           THEN bench'.active /\ bench'.alg = bench.alg /\ bench'.size = bench.size + 1
           ELSE IF bench.alg < Len(Algorithms)
           THEN bench'.active /\ bench'.alg = bench.alg + 1 /\ bench'.size = 1
           ELSE ~bench'.active
        /\ ~bench'.active =>
            /\ Len(benchmarkResults') = Len(Algorithms)
            /\ \A a \in DOMAIN benchmarkResults' :
                benchmarkResults'[a].algorithm = Algorithms[a]
            /\ Measures(benchmarkResults')
                = Len(Algorithms) * Len(sizes) - bench'.threw]_vars

C11_Witness ==
    /\ ~bench.active /\ bench.threw > 0 /\ benchmarkResults # <<>>
    /\ Len(benchmarkResults[1].times) < Len(sizes)
    /\ Len(benchmarkResults[Len(Algorithms)].times) = Len(sizes)

\* C12 (as claimed): in every published result, the measure at index k was
\* taken on an array of length sizes[k].
C12_MeasureAtIndexOfItsSize ==
    \A a \in DOMAIN benchmarkResults :
        \A k \in DOMAIN benchmarkResults[a].times :
            benchmarkResults[a].lens[k] = benchmarkResults[a].sizes[k]

\* C13 (as claimed): an engine call on an empty array, interactive or in
\* benchmark mode, ends by returning an empty array with no comparison and no
\* swap counted.
C13_EmptyArrayReturnsEmpty ==
    \A x \in DOMAIN runs :
        (runs[x].input = <<>> /\ Ended(runs[x]))
            => /\ runs[x].pc = "done"
               /\ runs[x].result = <<>>
               /\ runs[x].cs = NoStats

\* The positions of run r's working array whose element is marked comparing
\* or swapping.
Marked(h, r) ==
    {k \in 0..(Len(r.w) - 1) : h[r.w[k + 1]].isComparing \/ h[r.w[k + 1]].isSwapping}

\* The positions the step in progress of a sleeping run r has marked.
Busy(r) ==
    CASE r.pc \in {"b_compare", "b_swap"} -> {r.j, r.j + 1}
      [] r.pc = "q_compare" -> {r.j, r.high}
      [] r.pc = "q_swap" -> {r.i, r.j, r.high}
      [] r.pc = "m_compare" -> {r.k}
      [] r.pc \in {"hf_compare", "hf_swap"} ->
            UNION {Family(r.stack[d].a, r.stack[d].b) : d \in DOMAIN r.stack}
      [] r.pc = "h_take" -> {0, r.i}
      [] OTHER -> {}

\* Run x completes in this step.
Completes(x) ==
    /\ x \in DOMAIN runs' /\ runs'[x].pc = "done"
    /\ x \in DOMAIN runs => runs[x].pc # "done"

\* C14 (as claimed): while an interactive run sleeps, the only elements of its
\* array marked comparing or swapping are those of the step in progress, and
\* when it completes no element of the published array is marked.
C14_FlagsOnlyDuringStep ==
    [][\A x \in DOMAIN runs' :
        ~runs'[x].bench =>
            /\ Suspended(runs'[x]) => Marked(heap', runs'[x]) \subseteq Busy(runs'[x])
            /\ Completes(x) =>
                \A k \in DOMAIN array' :
                    ~heap'[array'[k]].isComparing /\ ~heap'[array'[k]].isSwapping]_vars

\* C15: in the step in which an interactive run completes (sorting is set to
\* false), every element of the array it publishes has isSorted = true.
C15_AllSortedAtCompletion ==
    [][\A x \in DOMAIN runs' :
        (~runs'[x].bench /\ Completes(x)) =>
            /\ ~sorting'
            /\ Values(array)' = runs'[x].result
            /\ \A k \in DOMAIN array' : heap'[array'[k]].isSorted]_vars

C15_Witness ==
    /\ ~sorting /\ array # <<>>
    /\ \E x \in DOMAIN runs :
        /\ ~runs[x].bench /\ runs[x].pc = "done" /\ runs[x].alg = "heap"
        /\ ~IsSorted(runs[x].input) /\ Values(array) = runs[x].result
    /\ \A k \in DOMAIN array : heap[array[k]].isSorted

\* Every element marked sorted before an engine step is marked sorted after.
KeepsSorted(S, T) ==
    \A o \in DOMAIN S.heap : S.heap[o].isSorted => T.heap[o].isSorted

RECURSIVE SortedKept(_)
\* KeepsSorted for every step the engine takes until it next sleeps or ends.
SortedKept(S) ==
    IF Suspended(S.r) \/ Ended(S.r) THEN TRUE
    ELSE LET T == EngineStep(S) IN KeepsSorted(S, T) /\ SortedKept(T)

\* C16: no step of a run clears an element's sorted flag: whenever a run is
\* started, and whenever a sleeping run is resumed, each step it then takes
\* leaves isSorted = true on every element that had it.
C16_SortedNeverCleared ==
    /\ SortedKept([World(NewCall(algorithm, speed, FALSE, array, Len(array)))
                     EXCEPT !.stats = NoStats])
    /\ \A x \in DOMAIN runs :
        Suspended(runs[x]) =>
            SortedKept(World([runs[x] EXCEPT !.wait = "none", !.ms = 0]))

C16_Witness ==
    \E x \in DOMAIN runs :
        /\ Suspended(runs[x]) /\ runs[x].alg = "heap"
        /\ \E k \in DOMAIN runs[x].w : heap[runs[x].w[k]].isSorted
        /\ \E k \in DOMAIN runs[x].w : ~heap[runs[x].w[k]].isSorted

\* C17: a run that is started has an accumulator with comparisons = 0 and
\* swaps = 0 when it first sleeps; from one step to the next neither counter
\* of any run decreases or is negative, and the counters of a run that has
\* ended do not change.
C17_CountersStartAtZeroAndGrow ==
    [][\A x \in DOMAIN runs' :
        IF x \in DOMAIN runs
        THEN /\ runs[x].cs.comparisons >= 0 /\ runs[x].cs.swaps >= 0
             /\ runs'[x].cs.comparisons >= runs[x].cs.comparisons
             /\ runs'[x].cs.swaps >= runs[x].cs.swaps
             /\ Ended(runs[x]) => runs'[x].cs = runs[x].cs
        ELSE runs'[x].cs = NoStats]_vars

C17_Witness ==
    /\ Len(runs) = 2
    /\ runs[1].pc = "done" /\ runs[1].cs.swaps > 1
    /\ InFlight(runs[2]) /\ runs[2].cs.comparisons > 0
    /\ runs[2].cs.comparisons < runs[1].cs.comparisons

\* A second benchmark call on an array with the same sequence of values, held
\* in other objects: allocated in reverse order after an unrelated element,
\* already marked sorted, at another speed setting.
Again(alg, vals) ==
    LET n == Len(vals)
        h == [p \in 1..(n + 1) |->
                IF p = 1 THEN ArrayBar(1)
                ELSE [ArrayBar(vals[n + 2 - p]) EXCEPT !.isSorted = TRUE]]
        arr == [k \in 1..n |-> n + 2 - k]
    IN [heap |-> h, array |-> <<1>>, sorting |-> FALSE, stats |-> NoStats,
        currentStep |-> <<>>, sortHistory |-> <<>>, now |-> 0,
        r |-> NewCall(alg, SLIDER_MAX, TRUE, arr, 1)]

\* C18: a benchmark-mode run that has returned counted the comparisons and
\* swaps that a second benchmark-mode run of the same algorithm counts on
\* another array with the same sequence of values.
C18_CountsDeterministic ==
    \A x \in DOMAIN runs :
        (runs[x].bench /\ runs[x].pc = "done") =>
            LET T == RunThrough(Again(runs[x].alg, runs[x].input)).r
            IN /\ T.pc = "done"
               /\ T.cs = runs[x].cs

C18_Witness ==
    /\ runs # <<>> /\ runs[1].bench /\ runs[1].pc = "done" /\ runs[1].alg = "quick"
    /\ Len(runs[1].input) = PureLen /\ ~IsSorted(runs[1].input)
    /\ runs[1].cs.swaps > PureLen

\* C19: a step in which an interactive run completes appends one entry to the
\* history, with that run's algorithm, array size and final comparisons and
\* swaps, and publishes an array that is in order with every element marked
\* sorted; any other step, the benchmark's included, leaves the history as it
\* is; the entries already in the history stay in place, unchanged.
C19_HistoryAppendOnly ==
    [][LET done == {x \in DOMAIN runs' : ~runs'[x].bench /\ Completes(x)}
           n == Len(sortHistory)
       IN /\ Len(sortHistory') = n + Cardinality(done)
          /\ \A h \in 1..n : sortHistory'[h] = sortHistory[h]
          /\ bench.active => sortHistory' = sortHistory
          /\ \A x \in done :
                /\ sortHistory'[n + 1].algorithm = runs'[x].alg
                /\ sortHistory'[n + 1].arraySize = Len(runs'[x].result)
                /\ sortHistory'[n + 1].comparisons = runs'[x].cs.comparisons
                /\ sortHistory'[n + 1].swaps = runs'[x].cs.swaps
                /\ IsSorted([k \in DOMAIN array' |-> heap'[array'[k]].value])
                /\ \A k \in DOMAIN array' : heap'[array'[k]].isSorted]_vars

\* Two runs have completed with different counts, and the benchmark matrix
\* has been run to its end.
C19_Witness ==
    /\ Len(sortHistory) = 2
    /\ sortHistory[1].swaps # sortHistory[2].swaps
    /\ \A x \in DOMAIN runs : runs[x].pc = "done"
    /\ benchmarkResults # <<>>

\* C20 (as claimed): no two entries of the history log have the same id.
C20_HistoryIdsUnique ==
    \A g, h \in DOMAIN sortHistory :
        g # h => sortHistory[g].id # sortHistory[h].id


\* The pairs of positions of vals that are out of order.
Inversions(vals) ==
    Cardinality({p \in (DOMAIN vals) \X (DOMAIN vals) :
                    p[1] < p[2] /\ vals[p[1]] > vals[p[2]]})

\* C21: a bubbleSort call that returns on n elements has made n(n-1)/2
\* comparisons and as many swaps as its input has inversions, in either
\* mode; on [5,3,8,1] it returns [1,3,5,8] with 6 comparisons and 4 swaps.
C21_BubbleCounts ==
    /\ \A x \in DOMAIN runs :
        (runs[x].alg = "bubble" /\ runs[x].pc = "done") =>
            /\ 2 * runs[x].cs.comparisons = Len(runs[x].input) * (Len(runs[x].input) - 1)
            /\ runs[x].cs.swaps = Inversions(runs[x].input)
    /\ Outcome(Silent("bubble", <<5, 3, 8, 1>>))
            = <<"done", <<1, 3, 5, 8>>, [comparisons |-> 6, swaps |-> 4]>>

\* A bubbleSort call has returned on four elements in reverse order.
C21_Witness ==
    \E x \in DOMAIN runs :
        /\ runs[x].alg = "bubble" /\ runs[x].pc = "done"
        /\ runs[x].input = <<3, 2, 2, 1>>
        /\ runs[x].cs = [comparisons |-> 6, swaps |-> 5]

\* An engine call on fresh elements of the given values, each carrying a mark
\* in a field mergeSort copies and never writes (isSwapping).
Tagged(alg, vals, tags, isBenchmark) ==
    LET a == AllocAll(<<>>, [x \in DOMAIN vals |->
                                [ArrayBar(vals[x]) EXCEPT !.isSwapping = tags[x]]], <<>>)
    IN [heap |-> a.heap, array |-> a.refs, sorting |-> FALSE, stats |-> NoStats,
        currentStep |-> <<>>, sortHistory |-> <<>>, now |-> 0,
        r |-> NewCall(alg, DEFAULT_SPEED, isBenchmark, a.refs, Len(vals))]

\* The marks of the elements of value v, in the order of the array.
TagsOf(objs, v) ==
    LET sel == SelectSeq(objs, LAMBDA e : e.value = v)
    IN [k \in DOMAIN sel |-> sel[k].isSwapping]

\* The elements of equal value are returned in the order they were passed in.
Stable(alg, vals, isBenchmark) ==
    \A tags \in [DOMAIN vals -> BOOLEAN] :
        LET B == Tagged(alg, vals, tags, isBenchmark)
            S == RunThrough(B)
            in == [k \in DOMAIN B.array |-> B.heap[B.array[k]]]
            out == [k \in DOMAIN S.r.w |-> S.heap[S.r.w[k]]]
        IN \A v \in Range(vals) : TagsOf(out, v) = TagsOf(in, v)

\* C22: a mergeSort call that returns has kept the elements of equal value in
\* their input order, and on two elements it has made 1 comparison and
\* counted 2 swaps; so it does on [2,1] and on [1,1].
C22_MergeStableAndCounts ==
    /\ \A x \in DOMAIN runs :
        (runs[x].alg = "merge" /\ runs[x].pc = "done") =>
            /\ Stable("merge", runs[x].input, runs[x].bench)
            /\ Len(runs[x].input) = 2 =>
                    runs[x].cs = [comparisons |-> 1, swaps |-> 2]
    /\ Outcome(Silent("merge", <<2, 1>>))
            = <<"done", <<1, 2>>, [comparisons |-> 1, swaps |-> 2]>>
    /\ Outcome(Silent("merge", <<1, 1>>))
            = <<"done", <<1, 1>>, [comparisons |-> 1, swaps |-> 2]>>

\* A mergeSort call has returned on an input whose two runs meet with equal
\* heads.
C22_Witness ==
    \E x \in DOMAIN runs :
        /\ runs[x].alg = "merge" /\ runs[x].pc = "done"
        /\ runs[x].input = <<2, 1, 1, 2>>
        /\ runs[x].result = <<1, 1, 2, 2>>

RECURSIVE Log2(_)
\* The height of a binary heap of n >= 1 elements.
Log2(n) == IF n <= 1 THEN 0 ELSE 1 + Log2(n \div 2)

(* heapSort calls heapify from the top n \div 2 times to build the heap and  *)
(* n - 1 times to extract; a call from the top is followed by at most       *)
(* Log2(n) nested calls, one per swap; each call counts 2 comparisons.      *)
HeapCalls(n) == IF n = 0 THEN 0 ELSE ((n \div 2) + (n - 1)) * (Log2(n) + 1)
HeapWorst(n) ==
    [comparisons |-> 2 * HeapCalls(n),
     swaps |-> IF n = 0 THEN 0 ELSE (n - 1) + ((n \div 2) + (n - 1)) * Log2(n)]

\* quickSort with the last element as pivot: at most n(n-1)/2 comparisons,
\* one swap at most per comparison and one per partition.
QuickWorst(n) ==
    [comparisons |-> (n * (n - 1)) \div 2,
     swaps |-> IF n = 0 THEN 0 ELSE ((n * (n - 1)) \div 2) + (n - 1)]

Worst(alg, n) == IF alg = "heap" THEN HeapWorst(n) ELSE QuickWorst(n)

Within(cs, worst) ==
    cs.comparisons <= worst.comparisons /\ cs.swaps <= worst.swaps

\* C23: a heapSort or quickSort call on values already in order, wherever
\* it has got to, goes on to return them in the same order, with comparisons and swaps within the worst case of
\* its length (an interactive call on no element at all is not considered);
\* so do both on [1,2,3,4,5].
C23_SortedInputWithinWorstCase ==
    /\ \A x \in DOMAIN runs :
        (/\ runs[x].alg \in {"heap", "quick"} /\ runs[x].pc # "start"
         /\ IsSorted(runs[x].input)
         /\ runs[x].bench \/ runs[x].input # <<>>) =>
            LET T == RunThrough(World(runs[x])).r
            IN /\ T.pc = "done"
               /\ T.result = runs[x].input
               /\ Within(T.cs, Worst(runs[x].alg, Len(runs[x].input)))
    /\ \A alg \in {"heap", "quick"} :
        LET r == Silent(alg, <<1, 2, 3, 4, 5>>)
        IN /\ r.pc = "done" /\ r.result = <<1, 2, 3, 4, 5>>
           /\ Within(r.cs, Worst(alg, 5))

\* A quickSort call has returned on three values in order, at its worst case.
C23_Witness ==
    \E x \in DOMAIN runs :
        /\ runs[x].alg = "quick" /\ runs[x].pc = "done"
        /\ runs[x].input = <<1, 2, 3>>
        /\ runs[x].result = <<1, 2, 3>>
        /\ runs[x].cs = QuickWorst(3)

\* The benchmark-mode call of alg on the array arr of the component as it is,
\* run to its end, leaves every object there was and every shared state as
\* it was, and the array it was passed too.
Untouched(alg, arr) ==
    LET B == World(NewCall(alg, speed, TRUE, arr, Len(arr)))
        S == RunThrough(B)
    IN /\ S.r.pc = "done"
       /\ \A o \in DOMAIN B.heap : o \in DOMAIN S.heap /\ S.heap[o] = B.heap[o]
       /\ <<S.array, S.sorting, S.stats, S.currentStep, S.sortHistory>>
            = <<B.array, B.sorting, B.stats, B.currentStep, B.sortHistory>>
       /\ S.r.arr = arr

\* C24: a step of the benchmark matrix, which runs one engine call in
\* benchmark mode, leaves the displayed array, its elements' flags, the
\* displayed statistics, the sorting flag, the step label, the history and
\* the interactive runs as they are; and so would a benchmark-mode call of
\* any engine on the displayed elements themselves.
C24_BenchmarkCallFrame ==
    [][bench.active =>
        /\ <<heap', array', sorting', stats', currentStep', sortHistory', runs'>>
             = <<heap, array, sorting, stats, currentStep, sortHistory, runs>>
        /\ \A alg \in AlgorithmSet : Untouched(alg, array)]_vars

\* The matrix has run engine calls while an interactive run sleeps in the
\* middle of a step, with elements of the displayed array marked.
C24_Witness ==
    /\ bench.active /\ Len(bench.comparisons) > 0
    /\ \E x \in DOMAIN runs : Suspended(runs[x])
    /\ \E k \in DOMAIN array : heap[array[k]].isComparing
    /\ sortHistory # <<>>

\* The values of the elements of arr in the engine's state S.
ValuesIn(S, arr) == [k \in DOMAIN arr |-> S.heap[arr[k]].value]

\* After the step from S to T the working array, and the displayed array if
\* the step published it, hold the values of the run's input.
HoldsInput(S, T) ==
    T.r.pc \in {"start", "threw"} \/
        /\ SameValues(ValuesIn(T, T.r.w), T.r.input)
        /\ T.array # S.array => SameValues(ValuesIn(T, T.array), T.r.input)

\* The same, but between the first and the last placement of a merge only
\* the length is looked at.
HoldsInputOutsideMerge(S, T) ==
    T.r.pc \in {"start", "threw"} \/
        /\ Len(T.r.w) = Len(T.r.input)
        /\ T.array # S.array => Len(T.array) = Len(T.r.input)
        /\ T.r.pc \in {"m_loop", "m_compare", "m_next", "m_drainL", "m_drainR"}
            \/ HoldsInput(S, T)

RECURSIVE ValuesKept(_)
\* HoldsInput for every step the engine takes until it next sleeps or ends.
ValuesKept(S) ==
    IF Suspended(S.r) \/ Ended(S.r) THEN TRUE
    ELSE LET T == EngineStep(S) IN HoldsInput(S, T) /\ ValuesKept(T)

RECURSIVE ValuesKeptOutsideMerge(_)
ValuesKeptOutsideMerge(S) ==
    IF Suspended(S.r) \/ Ended(S.r) THEN TRUE
    ELSE LET T == EngineStep(S)
         IN HoldsInputOutsideMerge(S, T) /\ ValuesKeptOutsideMerge(T)

\* C25 (as claimed): whenever a run is started, and whenever a sleeping run is
\* resumed, after each step it then takes its working array and every
\* snapshot it publishes have the length and the values of the run's input.
C25_ValuesKept ==
    /\ ValuesKept([World(NewCall(algorithm, speed, FALSE, array, Len(array)))
                     EXCEPT !.stats = NoStats])
    /\ \A x \in DOMAIN runs :
        Suspended(runs[x]) =>
            ValuesKept(World([runs[x] EXCEPT !.wait = "none", !.ms = 0]))

\* C25 (amended): the length is the input's after every step of a run of any
\* algorithm; the values are the input's after every step of bubbleSort,
\* quickSort and heapSort, and in mergeSort after every step outside a merge
\* (before its first placement and once its last element is placed).
C25_ValuesKeptOutsideMerge ==
    /\ ValuesKeptOutsideMerge([World(NewCall(algorithm, speed, FALSE, array, Len(array)))
                                 EXCEPT !.stats = NoStats])
    /\ \A x \in DOMAIN runs :
        Suspended(runs[x]) =>
            ValuesKeptOutsideMerge(World([runs[x] EXCEPT !.wait = "none", !.ms = 0]))

\* A mergeSort run sleeps in the middle of a merge, and the snapshot it has
\* published has the input's length but not its values.
C25_Witness ==
    \E x \in DOMAIN runs :
        /\ runs[x].alg = "merge" /\ Suspended(runs[x])
        /\ array = runs[x].w
        /\ Len(array) = Len(runs[x].input)
        /\ ~SameValues(Values(array), runs[x].input)

\* vals in non-decreasing order.
Ascending(vals) ==
    CHOOSE a \in [DOMAIN vals -> Range(vals)] : IsSorted(a) /\ SameValues(a, vals)

\* The elements the step from S to T marks sorted.
NewlySorted(S, T) ==
    {o \in DOMAIN S.heap : ~S.heap[o].isSorted /\ T.heap[o].isSorted}

\* The step from S to T of an interactive bubbleSort call: the step that
\* ends pass i leaves position n-1-i marked, with its final value; the
\* positions behind it keep their element, its mark and its final value; the
\* element at index 0 is marked by the step after the last pass only.
PassesKept(S, T) ==
    LET n == Len(T.r.w)
        fin == Ascending(T.r.input)
    IN (S.r.pc # "start" /\ T.r.pc # "threw") =>
        /\ (S.r.pc = "b_inner" /\ T.r.pc = "b_outer") =>
                /\ T.heap[Ref(T, n - 1 - S.r.i)].isSorted
                /\ Val(T, n - 1 - S.r.i) = fin[n - S.r.i]
        /\ \A q \in (n - S.r.i)..(n - 1) :
                /\ Ref(T, q) = Ref(S, q)
                /\ T.heap[Ref(T, q)].isSorted
                /\ Val(T, q) = fin[q + 1]
        /\ (n > 0 /\ Ref(T, 0) \in NewlySorted(S, T)) =>
                /\ S.r.pc = "b_finish"
                /\ S.r.i = n - 1

RECURSIVE BubblePasses(_)
\* PassesKept for every step the engine takes until it next sleeps or ends.
BubblePasses(S) ==
    IF Suspended(S.r) \/ Ended(S.r) THEN TRUE
    ELSE LET T == EngineStep(S) IN PassesKept(S, T) /\ BubblePasses(T)

\* C26: whenever an interactive bubbleSort run is started or resumed, each
\* step it then takes is as follows: the end of pass i leaves position n-1-i
\* marked sorted with the value it has in the sorted array; the positions
\* marked by earlier passes are not moved; the run marks the element at
\* index 0 only after the last pass.
C26_BubblePassesMarkFromTheEnd ==
    /\ algorithm = "bubble" =>
        BubblePasses([World(NewCall(algorithm, speed, FALSE, array, Len(array)))
                        EXCEPT !.stats = NoStats])
    /\ \A x \in DOMAIN runs :
        (runs[x].alg = "bubble" /\ Suspended(runs[x])) =>
            BubblePasses(World([runs[x] EXCEPT !.wait = "none", !.ms = 0]))

\* A bubbleSort run sleeps in its second pass: the last position is marked
\* sorted and the first is not.
C26_Witness ==
    \E x \in DOMAIN runs :
        /\ runs[x].alg = "bubble" /\ Suspended(runs[x]) /\ runs[x].i = 1
        /\ heap[runs[x].w[Len(runs[x].w)]].isSorted
        /\ ~heap[runs[x].w[1]].isSorted
        /\ runs[x].cs.swaps > 0

\* Every element of the first n positions is at most its parent.
IsMaxHeap(S, n) == \A c \in 1..(n - 1) : Val(S, (c - 1) \div 2) >= Val(S, c)

\* The positions the extraction loop has finished with, when the call is at S.
Extracted(S) ==
    IF S.r.phase # "extract" THEN {}
    ELSE IF S.r.pc \in {"h_extract", "h_take", "h_finish"}
         THEN (S.r.i + 1)..(Len(S.r.w) - 1)
         ELSE S.r.i..(Len(S.r.w) - 1)

\* The step from S to T of a heapSort call: the step that ends the build
\* phase leaves a max-heap; an extraction exchanges the root and position i
\* and, in an interactive call, marks position i at once; the positions
\* extracted keep their element, its mark and its final value; the element at
\* index 0 is marked by the step after the extraction loop only.
PhasesKept(S, T) ==
    LET n == Len(T.r.w)
        fin == Ascending(T.r.input)
    IN (S.r.pc # "start" /\ T.r.pc # "threw") =>
        /\ (S.r.pc = "h_build" /\ T.r.pc = "h_extract") => IsMaxHeap(T, n)
        /\ S.r.pc = "h_take" =>
                /\ Ref(T, S.r.i) = Ref(S, 0) /\ Ref(T, 0) = Ref(S, S.r.i)
                /\ Val(T, S.r.i) = fin[S.r.i + 1]
                /\ Interactive(S.r) => T.heap[Ref(T, S.r.i)].isSorted
        /\ \A q \in Extracted(S) :
                /\ Ref(T, q) = Ref(S, q)
                /\ Val(T, q) = fin[q + 1]
                /\ Interactive(S.r) => T.heap[Ref(T, q)].isSorted
        /\ (n > 0 /\ Ref(T, 0) \in NewlySorted(S, T)) =>
                /\ S.r.pc = "h_finish"
                /\ S.r.phase = "extract" /\ S.r.i = 0

RECURSIVE HeapPhases(_)
\* PhasesKept for every step of the call, through its timers, to its end.
HeapPhases(S) ==
    IF Ended(S.r) THEN TRUE
    ELSE LET S0 == [S EXCEPT !.r.wait = "none", !.r.ms = 0]
             T == EngineStep(S0)
         IN PhasesKept(S0, T) /\ HeapPhases(T)

\* C27: in every heapSort call the build phase ends with a max-heap over the
\* whole array; each extraction exchanges the root with the boundary
\* position i and marks it sorted at once; from then on position i keeps its
\* element, which has its final value; the call marks the element at index 0
\* only after the extraction loop.
C27_HeapPhases ==
    \A x \in DOMAIN runs :
        (runs[x].alg = "heap" /\ InFlight(runs[x])) => HeapPhases(World(runs[x]))

\* An interactive heapSort call has returned on four elements that were no
\* max-heap.
C27_Witness ==
    \E x \in DOMAIN runs :
        /\ runs[x].alg = "heap" /\ ~runs[x].bench /\ runs[x].pc = "done"
        /\ runs[x].input = <<1, 3, 2, 3>>
        /\ runs[x].result = <<1, 2, 3, 3>>

\* C28 (as claimed): while an interactive quickSort run is in flight, and no
\* other run is, no element of its array has sorted = true.
C28_NoSortedBeforeQuickEnds ==
    \A x \in DOMAIN runs :
        (/\ runs[x].alg = "quick" /\ Suspended(runs[x])
         /\ \A y \in DOMAIN runs \ {x} : Ended(runs[y])) =>
            \A k \in DOMAIN runs[x].w : ~heap[runs[x].w[k]].isSorted

\* The counters after a step, against the counters before it.
Adds(S, T, c, w) ==
    /\ T.r.cs.comparisons = S.r.cs.comparisons + c
    /\ T.r.cs.swaps = S.r.cs.swaps + w

\* The step from S to T of a mergeSort call; m holds the counters at the start
\* of the merge in progress and the number of its head comparisons so far.
MergeAdds(S, T, m) ==
    CASE S.r.pc = "m_compare" -> Adds(S, T, 1, 1)
      [] S.r.pc \in {"m_drainL", "m_drainR"} /\ T.r.pc = S.r.pc -> Adds(S, T, 0, 1)
      [] S.r.pc = "m_drainR" /\ T.r.pc = "m_call" ->
            /\ Adds(S, T, 0, 0)
            /\ T.r.cs.swaps = m.cs.swaps + (S.r.high - S.r.low + 1)
            /\ T.r.cs.comparisons = m.cs.comparisons + m.heads
            /\ m.heads <= S.r.high - S.r.low
      [] OTHER -> Adds(S, T, 0, 0)

RECURSIVE MergeCounts(_, _)
\* MergeAdds for every step of the call, through its timers, to its end.
MergeCounts(S, m) ==
    IF Ended(S.r) THEN TRUE
    ELSE LET S0 == [S EXCEPT !.r.wait = "none", !.r.ms = 0]
             T == EngineStep(S0)
             m1 == IF S0.r.pc = "m_call" /\ T.r.pc = "m_loop"
                   THEN [cs |-> T.r.cs, heads |-> 0]
                   ELSE IF S0.r.pc = "m_compare"
                        THEN [m EXCEPT !.heads = @ + 1]
                        ELSE m
         IN MergeAdds(S0, T, m) /\ MergeCounts(T, m1)

\* C29: in every mergeSort call, a placement of the head-comparison loop adds
\* one comparison and one swap, a drained placement adds one swap and no
\* comparison, no other step adds any; so a merge of [left, right] adds
\* right-left+1 swaps and at most right-left comparisons, one per element
\* placed by the head-comparison loop.
C29_MergeAddsPerPlacement ==
    \A x \in DOMAIN runs :
        (runs[x].alg = "merge" /\ runs[x].pc = "start") =>
            MergeCounts(World(runs[x]), [cs |-> NoStats, heads |-> 0])

\* A mergeSort call has returned on four elements: three merges, 4 + 2 + 2
\* placements, and a last merge that drained two elements.
C29_Witness ==
    \E x \in DOMAIN runs :
        /\ runs[x].alg = "merge" /\ runs[x].pc = "done"
        /\ runs[x].input = <<1, 2, 3, 3>>
        /\ runs[x].cs = [comparisons |-> 4, swaps |-> 8]

\* The comparisons of two element values the step from S evaluates: the one
\* of bubbleSort, partition and merge, and in heapify those of the children
\* that are below n (left < n && ..., right < n && ...).
Evaluated(S) ==
    LET f == Head(S.r.stack)
    IN CASE S.r.pc \in {"b_compare", "q_compare", "m_compare"} -> 1
         [] S.r.pc = "hf_compare" ->
                (IF 2 * f.b + 1 < f.a THEN 1 ELSE 0) + (IF 2 * f.b + 2 < f.a THEN 1 ELSE 0)
         [] OTHER -> 0

RECURSIVE CountsEvaluated(_)
\* Every step of the call, through its timers, to its end, adds to
\* comparisons the number of comparisons it evaluates.
CountsEvaluated(S) ==
    IF Ended(S.r) THEN TRUE
    ELSE LET S0 == [S EXCEPT !.r.wait = "none", !.r.ms = 0]
             T == EngineStep(S0)
         IN /\ T.r.cs.comparisons = S0.r.cs.comparisons + Evaluated(S0)
            /\ CountsEvaluated(T)

\* C30 (as claimed): every engine call adds one to comparisons for each
\* comparison of two element values it evaluates, and nothing otherwise; a
\* heapify whose child index is not below n adds none for that child.
C30_CountsOnlyEvaluatedComparisons ==
    \A x \in DOMAIN runs : runs[x].pc = "start" => CountsEvaluated(World(runs[x]))

\* C31 (as claimed): the sorting flag is true exactly while some interactive
\* run is in flight.
C31_SortingWhileRunInFlight ==
    sorting <=> \E x \in DOMAIN runs : InFlight(runs[x])

\* C32: after any sequence of startSorting and togglePause (and of the other
\* handlers and timers) pauseRef.current equals the isPaused state, and both
\* are false in the state startSorting leaves.
C32_PauseFlagMatchesState ==
    /\ pauseRef = isPaused
    /\ [][/\ pauseRef' = isPaused'
          /\ Len(runs') > Len(runs) => (~pauseRef' /\ ~isPaused')]_vars

\* A second run was started while the first was paused, and the pause button
\* was clicked again: both flags are set, with two runs in flight.
C32_Witness ==
    /\ Len(runs) = 2
    /\ \A x \in DOMAIN runs : InFlight(runs[x])
    /\ pauseRef /\ isPaused

=============================================================================
